---- MODULE Spec2Model ----
(***************************************************************************)
(* A model of Scanner (src/src/lib.rs): a java.util.Scanner look-alike     *)
(* that reads delimiter-separated tokens from a buf_redux::BufReader.      *)
(*                                                                         *)
(* The byte source is the sequence src; the BufReader is the pair          *)
(* (pos, bufEnd) of absolute offsets into src: the bytes src[pos+1..bufEnd]*)
(* are buffered and unconsumed, the bytes after bufEnd are still in the    *)
(* reader.  A byte is a one-character string; the bytes "C3" "A9" are the  *)
(* two bytes of one two-byte UTF-8 character and "FF" is a byte that never *)
(* occurs in UTF-8.                                                        *)
(***************************************************************************)
EXTENDS Integers, Sequences, FiniteSets, TLC

VARIABLES src, cap, pos, bufEnd, delim, radix, last, prev, fault, queue, pc

vars == <<src, cap, pos, bufEnd, delim, radix, last, prev, fault, queue, pc>>

(***************************** bounds ***************************************)
MaxLen == 4
MaxStretch == 2
MaxReads == 3
MaxStepLen == 4
MaxStepCap == 2
MaxCap == 3
MaxNumLen == 3
MaxNumCap == 2

(***************************** helpers **************************************)
Min(a, b) == IF a < b THEN a ELSE b

SeqsUpTo(A, n) == UNION {[1..k -> A] : k \in 0..n}

Slice(s, from, to) == SubSeq(s, from + 1, to)

None == [some |-> FALSE, val |-> <<>>]
Some(t) == [some |-> TRUE, val |-> t]

NoNum == [some |-> FALSE, val |-> 0, den |-> 1]
SomeNum(v, d) == [some |-> TRUE, val |-> v, den |-> d]

(***************************** text *****************************************)
\* str::from_utf8(buf).is_ok(): every byte is ASCII, or the lead byte C3
\* directly followed by its continuation byte A9.
RECURSIVE from_utf8_ok(_)
from_utf8_ok(buf) ==
    IF buf = <<>> THEN TRUE
    ELSE IF Head(buf) = "FF" \/ Head(buf) = "A9" THEN FALSE
    ELSE IF Head(buf) = "C3"
         THEN Len(buf) >= 2 /\ buf[2] = "A9" /\ from_utf8_ok(Tail(Tail(buf)))
    ELSE from_utf8_ok(Tail(buf))

(***************************** delimiters ***********************************)
\* The delimiting expressions of the repository: the default of Scanner::new
\* and the ones its tests install.
RE_WS == [kind |-> "regex", text |-> <<"\\", "s", "+">>]
RE_APLUSB == [kind |-> "regex", text |-> <<"a", "+", "b">>]
RE_AABSTARB == [kind |-> "regex", text |-> <<"a", "[", "a", "b", "]", "*", "b">>]
RE_FOO == [kind |-> "regex", text |-> <<"f", "o", "o">>]

\* An expression that also matches the empty string.
RE_WSSTAR == [kind |-> "regex", text |-> <<"\\", "s", "*">>]

Regexes == {RE_WS, RE_APLUSB, RE_AABSTARB, RE_FOO}

TwoSpaces == <<" ", " ">>
Literals == {TwoSpaces, <<"a", "+", "b">>}

\* regex::escape(delim) compiled: the expression matches the literal only.
Escaped(lit) == [kind |-> "literal", text |-> lit]

WhiteSpace == {" ", "\n", "\t", "\r"}

\* Whether the whole of s is in the language of the delimiting expression d.
InLang(d, s) ==
    IF d.kind = "literal" THEN s = d.text
    ELSE IF d = RE_WS THEN Len(s) >= 1 /\ \A i \in 1..Len(s) : s[i] \in WhiteSpace
    ELSE IF d = RE_APLUSB
         THEN Len(s) >= 2 /\ s[Len(s)] = "b" /\ \A i \in 1..(Len(s) - 1) : s[i] = "a"
    ELSE IF d = RE_AABSTARB
         THEN /\ Len(s) >= 2
              /\ s[1] = "a"
              /\ s[Len(s)] = "b"
              /\ \A i \in 1..Len(s) : s[i] \in {"a", "b"}
    ELSE IF d = RE_FOO THEN s = <<"f", "o", "o">>
    ELSE IF d = RE_WSSTAR THEN \A i \in 1..Len(s) : s[i] \in WhiteSpace
    ELSE FALSE

\* Regex::find(text): the leftmost match, and at that start the match the
\* greedy quantifiers give, which for these expressions is the longest one.
\* start and end are byte offsets into text, end exclusive.
NoMatch == [some |-> FALSE, start |-> 0, end |-> 0]

Least(S) == CHOOSE x \in S : \A y \in S : x <= y
Greatest(S) == CHOOSE x \in S : \A y \in S : y <= x

\* The offsets of text at which a match starts, and the offsets at which a
\* match that starts at i ends.
MatchStarts(d, text) ==
    {i \in 0..Len(text) : \E j \in i..Len(text) : InLang(d, Slice(text, i, j))}

MatchEnds(d, text, i) == {j \in i..Len(text) : InLang(d, Slice(text, i, j))}

find_among(d, text, starts) ==
    IF starts = {} THEN NoMatch
    ELSE [some |-> TRUE, start |-> Least(starts),
          end |-> Greatest(MatchEnds(d, text, Least(starts)))]

find(d, text) == find_among(d, text, MatchStarts(d, text))

(***************************** BufReader ************************************)
\* A fill_buf that reads again while bytes are still buffered.
fill_buf_always_reads(s, c, p, be) == Min(Len(s), be + c)

\* BufReader::fill_buf: the reader is read only when the buffer holds no
\* unconsumed byte, and then for at most cap bytes; the result is the new end
\* of the buffered bytes.
fill_buf(s, c, p, be) == IF p = be THEN Min(Len(s), be + c) ELSE be

\* The slice fill_buf returns: the buffered, unconsumed bytes.
Window(s, p, be) == Slice(s, p, be)

\* A consume that does not move the read position.
consume_nothing(p, be, amt) == p

\* BufReader::consume(amt)
consume(p, be, amt) == Min(p + amt, be)

(***************************** Scanner **************************************)
\* What consume_leading_delims does with the match found in its window
\* (lines 285-293): the length to consume, and stop when it returns at once.
leading_length(found) ==
    IF found.some
    THEN IF found.start > 0 THEN [length |-> 0, stop |-> TRUE]
         ELSE [length |-> found.end, stop |-> FALSE]
    ELSE [length |-> 0, stop |-> TRUE]

\* The length consume_leading_delims consumes for the window `text` (lines
\* 283-300).
leading_step(d, text) ==
    IF ~from_utf8_ok(text) THEN [length |-> 0, stop |-> TRUE]
    ELSE leading_length(find(d, text))

\* Scanner::consume_leading_delims: the stream position and buffer end it
\* leaves behind.  leading_pass is the end of one pass of its loop (lines
\* 302-306) for the window that ends at be1.
RECURSIVE consume_leading_delims(_, _, _, _, _)
leading_pass(s, c, d, p, be1, step) ==
    IF step.stop \/ step.length = 0
    THEN [pos |-> p, bufEnd |-> be1]
    ELSE consume_leading_delims(s, c, d, consume(p, be1, step.length), be1)

consume_leading_delims(s, c, d, p, be) ==
    leading_pass(s, c, d, p, fill_buf(s, c, p, be),
                 leading_step(d, Window(s, p, fill_buf(s, c, p, be))))

\* A scanner that consumes the delimiter it stops at.
token_length_through_delimiter(input, found) ==
    IF found.some
    THEN [push |-> Slice(input, 0, found.start), length |-> found.end,
          end |-> TRUE, found |-> found]
    ELSE [push |-> input, length |-> Len(input), end |-> FALSE, found |-> found]

\* A scanner that takes the end of the window for the end of the token.
token_length_ends_at_window(input, found) ==
    IF found.some
    THEN [push |-> Slice(input, 0, found.start), length |-> found.start,
          end |-> TRUE, found |-> found]
    ELSE [push |-> input, length |-> Len(input), end |-> TRUE, found |-> found]

\* What Scanner::next does with the match found in its window `input` (lines
\* 127-141): the text pushed onto res, the length consumed and the end flag.
token_length(input, found) ==
    IF found.some
    THEN [push |-> Slice(input, 0, found.start), length |-> found.start,
          end |-> TRUE, found |-> found]
    ELSE [push |-> input, length |-> Len(input), end |-> FALSE, found |-> found]

\* One pass of the loop of Scanner::next over the window `input` (lines
\* 112-145).
token_step(d, input) == token_length(input, find(d, input))

\* A next that hands out the accumulated text even when it is empty.
token_always_present(res) == Some(res)

\* What Scanner::next returns for the accumulated text (lines 153-157).
token_result(res) == IF Len(res) > 0 THEN Some(res) ELSE None

\* The loop of Scanner::next from position p with res accumulated so far;
\* start is where the loop began.  how: "invalid" (the early return of line
\* 117), "delim" (a delimiter was found), "eof" (an empty window).  passes
\* counts the windows scanned and at is where the last of them starts.
\* token_pass is the end of one pass (lines 146-150) for the window that ends
\* at be1.
RECURSIVE next_loop(_, _, _, _, _, _, _, _)
token_pass(s, c, d, p, be1, res, passes, start, step) ==
    IF step.end \/ step.length = 0
    THEN [pos |-> consume(p, be1, step.length), bufEnd |-> be1,
          res |-> token_result(res \o step.push),
          how |-> IF step.end THEN "delim" ELSE "eof",
          passes |-> passes + 1, found |-> step.found, at |-> p, tokStart |-> start]
    ELSE next_loop(s, c, d, consume(p, be1, step.length), be1, res \o step.push,
                   passes + 1, start)

next_loop(s, c, d, p, be, res, passes, start) ==
    LET be1 == fill_buf(s, c, p, be)
    IN  IF ~from_utf8_ok(Window(s, p, be1))
        THEN [pos |-> p, bufEnd |-> be1, res |-> None, how |-> "invalid",
              passes |-> passes + 1, found |-> NoMatch, at |-> p, tokStart |-> start]
        ELSE token_pass(s, c, d, p, be1, res, passes, start,
                        token_step(d, Window(s, p, be1)))

\* Scanner::next as a function of the stream state: the loop, begun where
\* consume_leading_delims leaves the stream.
next_after(s, c, d, lead) == next_loop(s, c, d, lead.pos, lead.bufEnd, <<>>, 0, lead.pos)

next_call(s, c, d, p, be) == next_after(s, c, d, consume_leading_delims(s, c, d, p, be))

\* BufRead::read_until(b'\n') as called by read_line: the bytes appended and
\* the stream state afterwards.
RECURSIVE read_until(_, _, _, _, _)
read_until(s, c, p, be, acc) ==
    LET be1 == fill_buf(s, c, p, be)
        available == Window(s, p, be1)
        hits == {i \in 1..Len(available) : available[i] = "\n"}
        used == IF hits = {} THEN Len(available)
                ELSE CHOOSE i \in hits : \A k \in hits : i <= k
        p1 == consume(p, be1, used)
        acc1 == acc \o Slice(available, 0, used)
    IN  IF hits # {} \/ used = 0
        THEN [pos |-> p1, bufEnd |-> be1, bytes |-> acc1]
        ELSE read_until(s, c, p1, be1, acc1)

\* A next_line that leaves the line feed on the line it returns.
line_result_keeps_newline(bytes) ==
    IF ~from_utf8_ok(bytes) THEN None
    ELSE IF bytes = <<>> THEN None
    ELSE Some(bytes)

\* The Option Scanner::next_line makes of the line read (lines 168-182);
\* read_line fails, leaving res empty, when the bytes are not UTF-8.
line_result(bytes) ==
    IF ~from_utf8_ok(bytes) THEN None
    ELSE IF bytes = <<>> THEN None
    ELSE IF bytes[Len(bytes)] = "\n" THEN Some(Slice(bytes, 0, Len(bytes) - 1))
    ELSE Some(bytes)

(***************************** numbers ***************************************)
Digits == <<"0", "1", "2", "3", "4", "5", "6", "7", "8", "9", "a", "b", "c", "d", "e", "f", "g", "h", "i", "j", "k", "l", "m", "n", "o", "p", "q", "r", "s", "t", "u", "v", "w", "x", "y", "z">>

\* char::to_digit(radix): the digit's value, or -1 when c is no digit of the
\* radix.
to_digit(c, r) ==
    LET hits == {i \in 1..Len(Digits) : Digits[i] = c /\ i - 1 < r}
    IN  IF hits = {} THEN -1 ELSE (CHOOSE i \in hits : TRUE) - 1

I32_MAX == 2147483647
I32_MIN == (0 - I32_MAX) - 1

\* checked_mul then checked_add (checked_sub for a negative number) of
\* i32::from_str_radix: one more digit x on the value acc; ok is FALSE on
\* overflow.
push_digit(acc, x, r, negative) ==
    IF negative
    THEN IF acc < ((I32_MIN + x) + (r - 1)) \div r THEN [ok |-> FALSE, val |-> 0]
         ELSE [ok |-> TRUE, val |-> acc * r - x]
    ELSE IF acc > (I32_MAX - x) \div r THEN [ok |-> FALSE, val |-> 0]
         ELSE [ok |-> TRUE, val |-> acc * r + x]

\* The digit loop of i32::from_str_radix: ok is FALSE when a character is no
\* digit of the radix or the value overflows.
RECURSIVE digits_value(_, _, _, _)
digits_value(ds, r, acc, negative) ==
    IF ds = <<>> THEN [ok |-> TRUE, val |-> acc]
    ELSE IF to_digit(Head(ds), r) < 0 THEN [ok |-> FALSE, val |-> 0]
    ELSE LET nxt == push_digit(acc, to_digit(Head(ds), r), r, negative)
         IN  IF nxt.ok THEN digits_value(Tail(ds), r, nxt.val, negative) ELSE nxt

\* A comma stripping that removes the last comma only.
strip_commas_once(input) ==
    LET commas == {i \in 1..Len(input) : input[i] = ","}
        idx == IF commas = {} THEN 0 ELSE CHOOSE i \in commas : \A k \in commas : k <= i
    IN  IF idx = 0 THEN input
        ELSE SubSeq(input, 1, idx - 1) \o SubSeq(input, idx + 1, Len(input))

\* The comma stripping loop of next_int and next_float (lines 195-197).
strip_commas(input) == SelectSeq(input, LAMBDA ch : ch # ",")

\* i32::from_str_radix: an optional sign, then at least one digit of the
\* radix; a value outside the 32-bit range is an error.
parse_int(input, r) ==
    LET signed == input # <<>> /\ Head(input) \in {"+", "-"}
        ds == IF signed THEN Tail(input) ELSE input
        v == digits_value(ds, r, 0, signed /\ Head(input) = "-")
    IN  IF ds = <<>> \/ ~v.ok THEN NoNum ELSE SomeNum(v.val, 1)

\* r^n, held at I32_MAX once it passes it.
RECURSIVE Power(_, _)
Power(b, n) ==
    IF n = 0 THEN 1
    ELSE LET rest == Power(b, n - 1)
         IN  IF rest > I32_MAX \div b THEN I32_MAX ELSE b * rest

\* f64::from_str_radix of num for text without exponent and without the
\* names inf and NaN: an optional '-', digits, at most one '.', digits.  The
\* value is val / den; a significand past I32_MAX is held at I32_MAX, the
\* model's stand-in for a float too large to be told from its neighbours.
parse_float(input, r) ==
    LET neg == input # <<>> /\ Head(input) = "-"
        body == IF neg THEN Tail(input) ELSE input
        dots == {i \in 1..Len(body) : body[i] = "."}
        cut == IF dots = {} THEN Len(body) + 1 ELSE CHOOSE i \in dots : \A k \in dots : i <= k
        int == Slice(body, 0, cut - 1)
        frac == IF dots = {} THEN <<>> ELSE Slice(body, cut, Len(body))
        sig == int \o frac
        valid == \A i \in 1..Len(sig) : to_digit(sig[i], r) >= 0
        mag == digits_value(sig, r, 0, FALSE)
        val == IF mag.ok THEN mag.val ELSE I32_MAX
    IN  IF body = <<>> \/ ~valid THEN NoNum
        ELSE SomeNum(IF neg THEN 0 - val ELSE val, Power(r, Len(frac)))

\* The match of next_int on the token (lines 192-205).
int_result(tok, r) == IF tok.some THEN parse_int(strip_commas(tok.val), r) ELSE NoNum

\* The match of next_float on the token (lines 236-249).
float_result(tok, r) == IF tok.some THEN parse_float(strip_commas(tok.val), r) ELSE NoNum

\* A set_radix that lets the radix 1 through.
radix_after_accepts_one(old, r) == IF 0 < r /\ r <= 36 THEN r ELSE old

\* The radix set_radix leaves in effect (lines 69-72).
radix_after(old, r) == IF 1 < r /\ r <= 36 THEN r ELSE old

\* A radix variant that forgets to set the old radix back.
radix_not_restored(old, r) == radix_after(old, r)

\* The radix after next_int_radix(r) and next_float_radix(r) on a radix they
\* accept: set to r for the parse, then set back with set_radix(old_radix)
\* (lines 220-224, 264-268).
radix_restored(old, r) == radix_after(radix_after(old, r), old)

\* A guard that lets the radix 1 through.
radix_rejected_below_one(r) == r < 1 \/ r > 36

\* The guard of next_int_radix and next_float_radix (lines 217, 261).
radix_rejected(r) == r < 2 \/ r > 36

(***************************** read failures ********************************)
\* A call during which no read of the source failed.
NoFault == [failed |-> FALSE, at |-> 0, acc |-> <<>>, retries |-> 0]

\* BufReader::fill_buf over a reader that can fail: the n-th read of the call
\* fails when n is in fails.  A failed read leaves the buffer as it was; bytes
\* that are still buffered are returned without a read.
try_fill_buf(s, c, p, be, n, fails) ==
    IF p # be THEN [ok |-> TRUE, bufEnd |-> be, n |-> n, read |-> FALSE]
    ELSE IF (n + 1) \in fails THEN [ok |-> FALSE, bufEnd |-> be, n |-> n + 1, read |-> TRUE]
    ELSE [ok |-> TRUE, bufEnd |-> Min(Len(s), be + c), n |-> n + 1, read |-> TRUE]

\* The record of the first failed read of a call: where the stream was, the
\* text accumulated by then, and the reads attempted after it.
note_read(ft, f, p, res) ==
    IF ft.failed
    THEN IF f.read THEN [ft EXCEPT !.retries = ft.retries + 1] ELSE ft
    ELSE IF f.ok THEN ft
    ELSE [failed |-> TRUE, at |-> p, acc |-> res, retries |-> 0]

\* Scanner::consume_leading_delims over such a reader: an Err of fill_buf
\* gives the length 0 (lines 297-299) and the function returns.
RECURSIVE leading_io(_, _, _, _, _, _, _, _)
leading_pass_io(s, c, d, p, f, step, fails, ft) ==
    IF ~f.ok \/ step.stop \/ step.length = 0
    THEN [pos |-> p, bufEnd |-> f.bufEnd, n |-> f.n, fault |-> ft]
    ELSE leading_io(s, c, d, consume(p, f.bufEnd, step.length), f.bufEnd, f.n, fails, ft)

leading_filled_io(s, c, d, p, f, fails, ft) ==
    leading_pass_io(s, c, d, p, f, leading_step(d, Window(s, p, f.bufEnd)), fails,
                    note_read(ft, f, p, <<>>))

leading_io(s, c, d, p, be, n, fails, ft) ==
    leading_filled_io(s, c, d, p, try_fill_buf(s, c, p, be, n, fails), fails, ft)

\* The loop of Scanner::next over such a reader: an Err of fill_buf gives
\* (0, true) (lines 142-144), so nothing is consumed and the loop ends with
\* the text accumulated so far.
RECURSIVE next_loop_io(_, _, _, _, _, _, _, _, _, _, _)
token_pass_io(s, c, d, p, f, res, passes, start, step, fails, ft) ==
    IF step.end \/ step.length = 0
    THEN [pos |-> consume(p, f.bufEnd, step.length), bufEnd |-> f.bufEnd,
          res |-> token_result(res \o step.push),
          how |-> IF step.end THEN "delim" ELSE "eof",
          passes |-> passes + 1, found |-> step.found, at |-> p, tokStart |-> start,
          fault |-> ft]
    ELSE next_loop_io(s, c, d, consume(p, f.bufEnd, step.length), f.bufEnd,
                      res \o step.push, passes + 1, start, f.n, fails, ft)

token_filled_io(s, c, d, p, f, res, passes, start, fails, ft) ==
    IF ~f.ok
    THEN [pos |-> consume(p, f.bufEnd, 0), bufEnd |-> f.bufEnd, res |-> token_result(res),
          how |-> "error", passes |-> passes + 1, found |-> NoMatch, at |-> p,
          tokStart |-> start, fault |-> ft]
    ELSE IF ~from_utf8_ok(Window(s, p, f.bufEnd))
    THEN [pos |-> p, bufEnd |-> f.bufEnd, res |-> None, how |-> "invalid",
          passes |-> passes + 1, found |-> NoMatch, at |-> p, tokStart |-> start,
          fault |-> ft]
    ELSE token_pass_io(s, c, d, p, f, res, passes, start,
                       token_step(d, Window(s, p, f.bufEnd)), fails, ft)

next_loop_io(s, c, d, p, be, res, passes, start, n, fails, ft) ==
    token_filled_io(s, c, d, p, try_fill_buf(s, c, p, be, n, fails), res, passes, start,
                    fails, note_read(ft, try_fill_buf(s, c, p, be, n, fails), p, res))

next_after_io(s, c, d, lead, fails) ==
    next_loop_io(s, c, d, lead.pos, lead.bufEnd, <<>>, 0, lead.pos, lead.n, fails, lead.fault)

\* Scanner::next over a reader whose reads in `fails` fail.
next_call_io(s, c, d, p, be, fails) ==
    next_after_io(s, c, d, leading_io(s, c, d, p, be, 0, fails, NoFault), fails)

(***************************** ElasticQueue *********************************)
\* ElasticQueue::with_capacity(capacity): an empty buffer buf whose allocation
\* `capacity` (buf.capacity()) is the persistent capacity cap.  taken counts
\* the bytes of src the queue has read; stretchEnd is the position in buf
\* after the last byte a stretch put there; stretched tells that the
\* allocation has been beyond cap; op is the last operation.
with_capacity(capacity) ==
    [buf |-> <<>>, cap |-> capacity, capacity |-> capacity, read_pos |-> 0,
     write_pos |-> 0, taken |-> 0, stretchEnd |-> 0, stretched |-> FALSE,
     op |-> "with_capacity"]

\* The unconsumed window buf[read_pos..write_pos].
queue_window(q) == Slice(q.buf, q.read_pos, q.write_pos)

\* The queue with n more bytes of the source behind the bytes `kept`.
queue_read(q, s, kept, n) ==
    [q EXCEPT !.buf = kept \o Slice(s, q.taken, q.taken + n),
              !.write_pos = Len(kept) + n,
              !.taken = q.taken + n]

\* fill_to_baseline: the unconsumed bytes move to the front and the window
\* is filled up to cap bytes, or to the end of the source.
elastic_fill(q, s) ==
    [queue_read(q, s, queue_window(q),
                IF q.write_pos - q.read_pos < q.cap
                THEN Min(q.cap - (q.write_pos - q.read_pos), Len(s) - q.taken)
                ELSE 0)
     EXCEPT !.read_pos = 0,
            !.stretchEnd = IF q.stretchEnd > q.read_pos THEN q.stretchEnd - q.read_pos ELSE 0,
            !.op = "fill_to_baseline"]

\* The queue after a stretch that appended n bytes: the allocation grows to
\* hold them.
stretched_by(q, q1, n) ==
    [q1 EXCEPT !.capacity = IF q1.write_pos > q.capacity THEN q1.write_pos ELSE q.capacity,
               !.stretchEnd = IF n > 0 THEN q1.write_pos ELSE q.stretchEnd,
               !.stretched = q.stretched \/ q1.write_pos > q.cap,
               !.op = "stretch"]

\* stretch(by): up to `by` more bytes of the source are appended; nothing in
\* the buffer moves or is dropped.
elastic_stretch(q, s, by) ==
    stretched_by(q, queue_read(q, s, q.buf, Min(by, Len(s) - q.taken)),
                 Min(by, Len(s) - q.taken))

\* A consume that never gives the extra room back.
elastic_consume_keeps_room(q, amt) ==
    [q EXCEPT !.read_pos = Min(q.read_pos + amt, q.write_pos), !.op = "consume"]

\* consume(amt): the read position advances (lib.rs 336-338); once every
\* stretched byte is passed and the window fits in cap, the buffer is
\* compacted and its allocation shrinks back to cap.
elastic_consume(q, amt) ==
    IF /\ q.capacity > q.cap
       /\ Min(q.read_pos + amt, q.write_pos) >= q.stretchEnd
       /\ q.write_pos - Min(q.read_pos + amt, q.write_pos) <= q.cap
    THEN [q EXCEPT !.buf = Slice(q.buf, Min(q.read_pos + amt, q.write_pos), q.write_pos),
                   !.read_pos = 0,
                   !.write_pos = q.write_pos - Min(q.read_pos + amt, q.write_pos),
                   !.capacity = q.cap,
                   !.stretchEnd = 0,
                   !.op = "consume"]
    ELSE [q EXCEPT !.read_pos = Min(q.read_pos + amt, q.write_pos), !.op = "consume"]

(***************************** state ****************************************)
\* What the last call was and did: the operation and its argument, the
\* stream state and configuration before it, and its results.
Call(op, arg, out, num) ==
    [op |-> op, arg |-> arg, pre |-> pos, preEnd |-> bufEnd, preRadix |-> radix,
     preDelim |-> delim, tokStart |-> out.tokStart, res |-> out.res, num |-> num,
     how |-> out.how, passes |-> out.passes, found |-> out.found, at |-> out.at]

NoScan == [pos |-> pos, bufEnd |-> bufEnd, res |-> None, how |-> "none", passes |-> 0,
     found |-> NoMatch, at |-> pos, tokStart |-> pos]

\* The call before the last one: what it was and how it ended.
Brief(call) == [op |-> call.op, arg |-> call.arg, how |-> call.how,
     some |-> call.res.some]

\* The scanner reads through the BufReader and never touches an ElasticQueue.
Record(call) == /\ last' = call
                /\ prev' = Brief(last)
                /\ fault' = NoFault
                /\ UNCHANGED <<queue, pc>>

\* Where a call of next that runs one loop iteration at a time is: at is
\* "idle" (no call in progress), "leading" (in the loop of
\* consume_leading_delims) or "token" (in the loop of next); res is the text
\* accumulated, pre and preEnd the stream state when the call began, start
\* the position at which consume_leading_delims returned, and ret what the
\* last call returned.
Idle == [at |-> "idle", res |-> <<>>, pre |-> 0, preEnd |-> 0, start |-> 0, ret |-> None]

(***************************** operations ***********************************)
\* A call that scanned: the stream is where the scan `out` left it.
Scanned(op, arg, out, num) ==
    /\ pos' = out.pos
    /\ bufEnd' = out.bufEnd
    /\ Record(Call(op, arg, out, num))

IntScanned(op, arg, out, r) == Scanned(op, arg, out, int_result(out.res, r))

FloatScanned(op, arg, out, r) == Scanned(op, arg, out, float_result(out.res, r))

\* Scanner::next
next ==
    /\ Scanned("next", 0, next_call(src, cap, delim, pos, bufEnd), NoNum)
    /\ UNCHANGED <<src, cap, delim, radix>>

LineRead(out) ==
    /\ pos' = out.pos
    /\ bufEnd' = out.bufEnd
    /\ Record(Call("next_line", 0, [NoScan EXCEPT !.res = line_result(out.bytes)], NoNum))

\* Scanner::next_line
next_line ==
    /\ LineRead(read_until(src, cap, pos, bufEnd, <<>>))
    /\ UNCHANGED <<src, cap, delim, radix>>

\* A next_int that puts the token back when it does not parse.
IntScannedOrPutBack(op, arg, out, r) ==
    /\ pos' = IF out.res.some /\ ~int_result(out.res, r).some THEN out.tokStart ELSE out.pos
    /\ bufEnd' = out.bufEnd
    /\ Record(Call(op, arg, out, int_result(out.res, r)))

next_int_keeps_unparsed_token ==
    /\ IntScannedOrPutBack("next_int", 0, next_call(src, cap, delim, pos, bufEnd), radix)
    /\ UNCHANGED <<src, cap, delim, radix>>

\* Scanner::next_int::<i32>
next_int ==
    /\ IntScanned("next_int", 0, next_call(src, cap, delim, pos, bufEnd), radix)
    /\ UNCHANGED <<src, cap, delim, radix>>

\* Scanner::next_float::<f64>
next_float ==
    /\ FloatScanned("next_float", 0, next_call(src, cap, delim, pos, bufEnd), radix)
    /\ UNCHANGED <<src, cap, delim, radix>>

\* Scanner::next_int_radix::<i32>(r): the radix is r during next_int and
\* set back to the old one after it.
next_int_radix(r) ==
    IF radix_rejected(r)
    THEN /\ Record(Call("next_int_radix", r, NoScan, NoNum))
         /\ UNCHANGED <<src, cap, pos, bufEnd, delim, radix>>
    ELSE /\ IntScanned("next_int_radix", r, next_call(src, cap, delim, pos, bufEnd),
                       radix_after(radix, r))
         /\ radix' = radix_restored(radix, r)
         /\ UNCHANGED <<src, cap, delim>>

\* Scanner::next_float_radix::<f64>(r)
next_float_radix(r) ==
    IF radix_rejected(r)
    THEN /\ Record(Call("next_float_radix", r, NoScan, NoNum))
         /\ UNCHANGED <<src, cap, pos, bufEnd, delim, radix>>
    ELSE /\ FloatScanned("next_float_radix", r, next_call(src, cap, delim, pos, bufEnd),
                         radix_after(radix, r))
         /\ radix' = radix_restored(radix, r)
         /\ UNCHANGED <<src, cap, delim>>

\* Scanner::set_radix(r): `num` is the radix the call returns, self.radix
\* after the assignment (line 72).
set_radix(r) ==
    /\ radix' = radix_after(radix, r)
    /\ Record(Call("set_radix", r, NoScan, SomeNum(radix_after(radix, r), 1)))
    /\ UNCHANGED <<src, cap, pos, bufEnd, delim>>

\* A set_delim that throws the buffered bytes away.
set_delim_drops_buffer(re) ==
    /\ delim' = re
    /\ pos' = bufEnd
    /\ Record(Call("set_delim", 0, NoScan, NoNum))
    /\ UNCHANGED <<src, cap, bufEnd, radix>>

\* Scanner::set_delim(re)
set_delim(re) ==
    /\ delim' = re
    /\ Record(Call("set_delim", 0, NoScan, NoNum))
    /\ UNCHANGED <<src, cap, pos, bufEnd, radix>>

\* Scanner::set_delim_str(lit)
set_delim_str(lit) ==
    /\ delim' = Escaped(lit)
    /\ Record(Call("set_delim_str", 0, NoScan, NoNum))
    /\ UNCHANGED <<src, cap, pos, bufEnd, radix>>

(***************************** specifications *******************************)
\* The capacity of BufReader::new.
DEFAULT_BUF_SIZE == 65536

\* Scanner::new (lines 84-91) on a reader that has read nothing yet.
Constructed ==
    /\ pos = 0
    /\ bufEnd = 0
    /\ delim = RE_WS
    /\ radix = 10
    /\ last = [op |-> "new", arg |-> 0, pre |-> 0, preEnd |-> 0, preRadix |-> 10,
               preDelim |-> RE_WS, tokStart |-> 0, res |-> None, num |-> NoNum,
               how |-> "none", passes |-> 0, found |-> NoMatch, at |-> 0]
    /\ prev = [op |-> "new", arg |-> 0, how |-> "none", some |-> FALSE]
    /\ fault = NoFault
    /\ queue = with_capacity(cap)
    /\ pc = Idle

\* The inputs and capacities of the repository's tests (src/src/tests.rs).
TestInputs ==
    {[src |-> <<"h", "e", "l", "l", "o", ",", " ", "w", "o", "r", "l", "d">>, cap |-> DEFAULT_BUF_SIZE],
     [src |-> <<"h", "e", "l", "l", "o", ",", " ", " ", "w", "o", "r", "l", "d">>, cap |-> DEFAULT_BUF_SIZE],
     [src |-> <<"1", "1", "0", "1", "0">>, cap |-> DEFAULT_BUF_SIZE],
     [src |-> <<"1", "1", "0", "1", "0", ".", "1">>, cap |-> DEFAULT_BUF_SIZE],
     [src |-> <<"h", "e", "l", "l", "o", " ", "w", "o", "r", "l", "d">>, cap |-> 4],
     [src |-> <<"f", "o", "o", " ", " ", "b", "a", "r">>, cap |-> 4],
     [src |-> <<"a", "a", "a", "a", "b", "f", "o", "o">>, cap |-> 4],
     [src |-> <<"a", "a", "a", "b", "b", "f", "o", "o">>, cap |-> 4]}

RadixArgs == {1, 2, 36, 37}

\* Every operation, on the inputs of the tests.
Init == /\ \E t \in TestInputs : src = t.src /\ cap = t.cap
        /\ Constructed

Next == \/ next
        \/ next_line
        \/ next_int
        \/ next_float
        \/ \E r \in RadixArgs : next_int_radix(r)
        \/ \E r \in RadixArgs : next_float_radix(r)
        \/ \E r \in RadixArgs : set_radix(r)
        \/ \E re \in Regexes : set_delim(re)
        \/ \E lit \in Literals : set_delim_str(lit)

Spec == Init /\ [][Next]_vars

\* The token and line operations under every delimiter, on every short text
\* over a, b and the space, for every small capacity.
ScanBytes == {"a", "b", " "}

ScanRegexes == {RE_WS, RE_APLUSB, RE_AABSTARB}

InitScan == /\ src \in SeqsUpTo(ScanBytes, MaxLen)
            /\ cap \in 1..MaxCap
            /\ Constructed

NextScan == \/ next
            \/ next_line
            \/ \E re \in ScanRegexes : set_delim(re)
            \/ set_delim_str(TwoSpaces)

SpecScan == InitScan /\ [][NextScan]_vars

\* The line operations on texts with newlines.
LineBytes == {"a", " ", "\n"}

InitLine == /\ src \in SeqsUpTo(LineBytes, MaxLen)
            /\ cap \in 1..MaxCap
            /\ Constructed

SpecLine == InitLine /\ [][NextScan]_vars

\* The token operations on bytes that are not all valid UTF-8.
Utf8Bytes == {"a", " ", "C3", "A9"}

InitUtf8 == /\ src \in SeqsUpTo(Utf8Bytes, MaxLen)
            /\ cap \in 1..MaxCap
            /\ Constructed

SpecUtf8 == InitUtf8 /\ [][NextScan]_vars

\* next_int on the numerals of the overflow tests (tests.rs:82-106), on the
\* numerals around the ends of the 32-bit range in the radixes 10, 36 and 2,
\* and on every short text over 1, the minus sign and the comma.
IntBytes == {"1", "-", ","}

Repeated(ch, n) == [i \in 1..n |-> ch]

IntInputs ==
    {<<"2", ",", "1", "4", "7", ",", "4", "8", "3", ",", "6", "4", "7">>,
     <<"2", "1", "4", "7", "4", "8", "3", "6", "4", "8">>,
     <<"-", "2", "1", "4", "7", "4", "8", "3", "6", "4", "9">>,
     <<"-", "2", ",", "1", "4", "7", ",", "4", "8", "3", ",", "6", "4", "8">>,
     <<"2", "1", "4", "7", "4", "8", "3", "6", "4", "7">>,
     <<"-", "2", "1", "4", "7", "4", "8", "3", "6", "4", "7">>,
     <<"0", "0", "0", "2", "1", "4", "7", "4", "8", "3", "6", "4", "8">>,
     <<"0", "0", "0", "0", "0", "0", "0", "0", "0", "0", "1">>,
     <<"+", "1", "2">>,
     <<"z", "i", "k", "0", "z", "j">>,
     <<"z", "i", "k", "0", "z", "k">>,
     <<"-", "z", "i", "k", "0", "z", "k">>,
     <<"-", "z", "i", "k", "0", "z", "l">>,
     Repeated("1", 31),
     <<"1">> \o Repeated("0", 31),
     <<"-", "1">> \o Repeated("0", 31),
     <<"-", "1">> \o Repeated("0", 30) \o <<"1">>}

InitInt == /\ src \in IntInputs \cup SeqsUpTo(IntBytes, MaxNumLen)
           /\ cap \in (1..MaxNumCap) \cup {DEFAULT_BUF_SIZE}
           /\ Constructed

NextInt == \/ next_int
           \/ \E r \in RadixArgs : set_radix(r)

SpecInt == InitInt /\ [][NextInt]_vars

\* The token and line operations on every short text over a, the line feed
\* and a byte that is not UTF-8, for every small capacity.
TextBytes == {"a", "\n", "A9"}

InitText == /\ src \in SeqsUpTo(TextBytes, MaxLen)
            /\ cap \in 1..MaxCap
            /\ Constructed

NextText == next \/ next_line

SpecText == InitText /\ [][NextText]_vars

\* The operations of the elastic queue on every short source, for every small
\* persistent capacity.  The scanner is not used.
QueueOp(q) ==
    /\ queue' = q
    /\ UNCHANGED <<src, cap, pos, bufEnd, delim, radix, last, prev, fault, pc>>

fill_to_baseline == QueueOp(elastic_fill(queue, src))

stretch(by) == QueueOp(elastic_stretch(queue, src, by))

consume_elastic(amt) == QueueOp(elastic_consume(queue, amt))

InitQueue == /\ src \in SeqsUpTo(ScanBytes, MaxLen)
             /\ cap \in 1..MaxCap
             /\ Constructed

NextQueue == \/ fill_to_baseline
             \/ \E by \in 1..MaxStretch : stretch(by)
             \/ \E amt \in 0..(queue.write_pos - queue.read_pos) : consume_elastic(amt)

SpecQueue == InitQueue /\ [][NextQueue]_vars

\* next over a reader that fails on some of the reads of the call, under
\* every delimiter, on every short text over a, b and the space.
ScannedOverFaults(out) ==
    /\ pos' = out.pos
    /\ bufEnd' = out.bufEnd
    /\ last' = Call("next", 0, out, NoNum)
    /\ prev' = Brief(last)
    /\ fault' = out.fault
    /\ UNCHANGED <<src, cap, delim, radix, queue, pc>>

next_failing(fails) == ScannedOverFaults(next_call_io(src, cap, delim, pos, bufEnd, fails))

NextFault == \/ \E fails \in SUBSET (1..MaxReads) : next_failing(fails)
             \/ \E re \in ScanRegexes : set_delim(re)

SpecFault == InitScan /\ [][NextFault]_vars

\* next under every delimiter, one that matches the empty string among them,
\* on every short text over a, b and the space.
NextEmpty == \/ next
             \/ \E re \in ScanRegexes \cup {RE_WSSTAR} : set_delim(re)

SpecEmpty == InitScan /\ [][NextEmpty]_vars

\* next, one loop iteration at a time, on every short text over a, b and the
\* space, for every small capacity, under a delimiter set before the first
\* call: the default one, one that goes over several windows and one that
\* matches the empty string.
StepDelims == {RE_APLUSB, RE_WSSTAR}

InLoop(at, res, start, ret) ==
    [pc EXCEPT !.at = at, !.res = res, !.start = start, !.ret = ret]

\* The call of next (line 106) and of consume_leading_delims (line 107).
next_begin ==
    /\ pc.at = "idle"
    /\ pc' = [at |-> "leading", res |-> <<>>, pre |-> pos, preEnd |-> bufEnd,
              start |-> pos, ret |-> None]
    /\ UNCHANGED <<src, cap, pos, bufEnd, delim, radix, last, prev, fault, queue>>

\* One iteration of the loop of consume_leading_delims (lines 281-307) over
\* the window that ends at be1: it returns, and next goes on with an empty res
\* (line 109), or it consumes the length and loops.
LeadingIterated(be1, step) ==
    /\ bufEnd' = be1
    /\ IF step.stop \/ step.length = 0
       THEN /\ pos' = pos
            /\ pc' = InLoop("token", <<>>, pos, None)
       ELSE /\ pos' = consume(pos, be1, step.length)
            /\ pc' = InLoop("leading", <<>>, pos, None)

LeadingFilled(be1) == LeadingIterated(be1, leading_step(delim, Window(src, pos, be1)))

leading_iteration ==
    /\ pc.at = "leading"
    /\ LeadingFilled(fill_buf(src, cap, pos, bufEnd))
    /\ UNCHANGED <<src, cap, delim, radix, last, prev, fault, queue>>

\* One iteration of the loop of next (lines 111-151) over the window that ends
\* at be1: the break of line 149 and the return of lines 153-157 (ret is what
\* is returned), or one more turn of the loop.
TokenIterated(be1, step) ==
    /\ pos' = consume(pos, be1, step.length)
    /\ bufEnd' = be1
    /\ IF step.end \/ step.length = 0
       THEN pc' = InLoop("idle", <<>>, pc.start, token_result(pc.res \o step.push))
       ELSE pc' = InLoop("token", pc.res \o step.push, pc.start, None)

\* The early return of line 117 when the window is not UTF-8.
TokenFilled(be1) ==
    IF ~from_utf8_ok(Window(src, pos, be1))
    THEN /\ pos' = pos
         /\ bufEnd' = be1
         /\ pc' = InLoop("idle", <<>>, pc.start, None)
    ELSE TokenIterated(be1, token_step(delim, Window(src, pos, be1)))

token_iteration ==
    /\ pc.at = "token"
    /\ TokenFilled(fill_buf(src, cap, pos, bufEnd))
    /\ UNCHANGED <<src, cap, delim, radix, last, prev, fault, queue>>

InitStep == /\ src \in SeqsUpTo(ScanBytes, MaxStepLen)
            /\ cap \in 1..MaxStepCap
            /\ Constructed

NextStep == \/ next_begin
            \/ leading_iteration
            \/ token_iteration
            \/ \E re \in StepDelims : last.op = "new" /\ pc = Idle /\ set_delim(re)

SpecStep == InitStep /\ [][NextStep]_vars

\* A call that has begun goes on: the loops take their next iteration.
SpecStepFair == SpecStep /\ WF_vars(leading_iteration) /\ WF_vars(token_iteration)

\* The numeric operations on digit strings with commas, in every radix the
\* tests use, and on the two numeric inputs of the custom radix tests.
NumBytes == {"1", "z", ",", " "}

NumInputs ==
    {<<"1", "1", "0", "1", "0">>, <<"1", "1", "0", "1", "0", ".", "1">>}

InitNum == /\ src \in SeqsUpTo(NumBytes, MaxNumLen) \cup NumInputs
           /\ cap \in 1..MaxNumCap
           /\ Constructed

NumRadixArgs == {1, 2, 37}

NextNum == \/ next_int
           \/ next_float
           \/ \E r \in NumRadixArgs : next_int_radix(r)
           \/ \E r \in NumRadixArgs : next_float_radix(r)
           \/ \E r \in NumRadixArgs : set_radix(r)

SpecNum == InitNum /\ [][NextNum]_vars

(***************************************************************************)
(* What the stream as a whole says, whatever the buffer windows are: the   *)
(* yardstick the claims measure the scanner against.                       *)
(***************************************************************************)
Rest(s, p) == Slice(s, p, Len(s))

\* The position after every delimiter match at the head of the stream.
RECURSIVE StreamSkip(_, _, _)
StreamSkip(s, d, p) ==
    LET f == find(d, Rest(s, p))
    IN  IF f.some /\ f.start = 0 /\ f.end > 0 THEN StreamSkip(s, d, p + f.end) ELSE p

\* The token of the stream at p: where it starts and stops, its text, and
\* the delimiter match [dStart, dEnd) that ends it, when one does.
StreamToken(s, d, p) ==
    LET q == StreamSkip(s, d, p)
        f == find(d, Rest(s, q))
        stop == IF f.some THEN q + f.start ELSE Len(s)
    IN  [start |-> q, stop |-> stop, tok |-> Slice(s, q, stop), delimited |-> f.some,
         dStart |-> q + f.start, dEnd |-> q + f.end]

\* Where the buffer windows of the last call end: the reader is read at most
\* cap bytes at a time, and only when the buffer is empty.
WindowEnds ==
    LET first == fill_buf(src, cap, last.pre, last.preEnd)
    IN  {b \in 1..(Len(src) - 1) : b >= first /\ (b - first) % cap = 0}

\* The end of the window that holds the byte at offset p.
WindowEndAfter(p) ==
    LET ends == {b \in WindowEnds : b > p}
    IN  IF ends = {} THEN Len(src) ELSE CHOOSE b \in ends : \A e \in ends : b <= e

LastToken == StreamToken(src, last.preDelim, last.pre)

\* The delimiter that ends the stream's token can be seen inside one window:
\* one of its matches ends before the window of its first byte does.
DelimiterInOneWindow ==
    LastToken.delimited =>
        \E j \in LastToken.dStart..WindowEndAfter(LastToken.dStart) :
            InLang(last.preDelim, Slice(src, LastToken.dStart, j))

(***************************** claims ***************************************)
\* C1: when the delimiter match that ends a token begins in one buffer window
\* and ends in the next, next() returns exactly the text before the start of
\* that delimiter.  (The token starts where the call starts, so no leading
\* delimiter is involved.)
C1_DelimiterAcrossWindows ==
    ( /\ last.op = "next"
      /\ LastToken.start = last.pre
      /\ LastToken.delimited
      /\ LastToken.dStart > last.pre
      /\ \E b \in WindowEnds : LastToken.dStart < b /\ b < LastToken.dEnd )
    => last.res = Some(LastToken.tok)

\* The first window of the last call.
FirstWindow == Window(src, last.pre, fill_buf(src, cap, last.pre, last.preEnd))

\* The delimiter match at the head of the stream when the last call started.
LeadingMatch == find(last.preDelim, Rest(src, last.pre))

\* C2: when the first window is a proper prefix of a leading delimiter match
\* that completes in later bytes (and is no delimiter match itself), next()
\* skips the whole delimiter and returns the token after it.
C2_PartialLeadingDelimiter ==
    ( /\ last.op = "next"
      /\ LeadingMatch.some
      /\ LeadingMatch.start = 0
      /\ LeadingMatch.end > Len(FirstWindow)
      /\ ~InLang(last.preDelim, FirstWindow) )
    => /\ last.tokStart = LastToken.start
       /\ last.res = token_result(LastToken.tok)

\* C3: when a leading delimiter match fills the whole first window and goes
\* on into the following bytes, the leading skip consumes the whole longest
\* match of the stream.
C3_GreedyLeadingDelimiter ==
    ( /\ last.op = "next"
      /\ LeadingMatch.some
      /\ LeadingMatch.start = 0
      /\ LeadingMatch.end > Len(FirstWindow)
      /\ InLang(last.preDelim, FirstWindow) )
    => last.tokStart >= last.pre + LeadingMatch.end

FoundStart == last.at + last.found.start
FoundEnd == last.at + last.found.end

\* The text of the line of the stream that starts at offset p, without its
\* newline.
LineFrom(p) ==
    LET nls == {i \in (p + 1)..Len(src) : src[i] = "\n"}
        stop == IF nls = {} THEN Len(src) ELSE (CHOOSE i \in nls : \A k \in nls : i <= k) - 1
    IN  Slice(src, p, stop)

\* C5: next() does not consume the delimiter that ends the token it
\* returns: the stream is left at the first byte of the delimiter match the
\* token stopped at, that match is still buffered, and a next_line() that
\* follows returns the rest of the line from that byte on.
C5_NextKeepsTrailingDelimiter ==
    /\ ( last.op = "next" /\ last.how = "delim" /\ last.res.some )
       => /\ pos = FoundStart
          /\ pos = last.tokStart + Len(last.res.val)
          /\ FoundEnd <= bufEnd
          /\ InLang(last.preDelim, Slice(src, pos, FoundEnd))
    /\ ( /\ prev.op = "next"
         /\ prev.how = "delim"
         /\ prev.some
         /\ last.op = "next_line" )
       => /\ last.res = Some(LineFrom(last.pre))
          /\ find(last.preDelim, Rest(src, last.pre)).start = 0
          /\ src[last.pre + 1] # "\n" => Head(last.res.val) = src[last.pre + 1]

C5_Witness ==
    /\ prev.op = "next"
    /\ prev.how = "delim"
    /\ prev.some
    /\ last.op = "next_line"
    /\ last.preDelim = RE_WS
    /\ Len(last.res.val) >= 2
    /\ last.res.val[1] = " "
    /\ last.res.val[2] = "a"
    /\ src[pos] = "\n"

\* C6 as stated: on a delimiter match next() emits the text before the start
\* of the match and consumes the stream through the end of the match.
C6_ConsumesThroughMatchEnd ==
    ( last.op = "next" /\ last.how = "delim" )
    => /\ last.res = token_result(Slice(src, last.tokStart, FoundStart))
       /\ pos = FoundEnd

\* C6 as the code has it: on a delimiter match next() emits the text before
\* the start of the match and consumes the stream up to the start of the
\* match, no further; the match itself stays in the buffer.
C6_ConsumesUpToMatchStart ==
    ( last.op = "next" /\ last.how = "delim" )
    => /\ last.res = token_result(Slice(src, last.tokStart, FoundStart))
       /\ pos = FoundStart
       /\ FoundEnd <= bufEnd

C6_Witness ==
    /\ last.op = "next"
    /\ last.how = "delim"
    /\ last.res.some
    /\ last.tokStart > last.pre
    /\ FoundEnd >= FoundStart + 2
    /\ pos = FoundStart

\* C7: successive next() calls return the tokens of the stream in source
\* order, each without delimiter text, and no token after the last one:
\* every call returns the stream's token at its position and stops where
\* that token stops.
C7_TokensInSourceOrder ==
    last.op = "next"
    => /\ last.res = token_result(LastToken.tok)
       /\ pos = LastToken.stop

\* C8: when the bytes next() scans are not valid text it reports no token
\* and leaves the stream where it was before the call.
C8_InvalidTextConsumesNothing ==
    ( last.op = "next" /\ last.how = "invalid" )
    => /\ ~last.res.some
       /\ pos = last.pre

NumericOps == {"next_int", "next_float", "next_int_radix", "next_float_radix"}

\* C9: when next_int / next_float gets a token that does not parse in the
\* radix in effect it returns no value and the token is consumed all the
\* same: the stream is where a plain next() would have left it, after the
\* last byte of the token.
C9_ParseFailureConsumesToken ==
    ( last.op \in NumericOps /\ last.res.some /\ ~last.num.some )
    => /\ pos = next_call(src, cap, last.preDelim, last.pre, last.preEnd).pos
       /\ bufEnd = next_call(src, cap, last.preDelim, last.pre, last.preEnd).bufEnd
       /\ pos = last.tokStart + Len(last.res.val)
       /\ last.res.val = Slice(src, last.tokStart, pos)
       /\ pos > last.pre

C9_Witness ==
    /\ last.op = "next_int"
    /\ last.res = Some(<<"z">>)
    /\ ~last.num.some
    /\ prev.op = "next_float"
    /\ prev.some
    /\ last.tokStart > last.pre
    /\ pos = last.tokStart + 1

\* C10: next_int_radix / next_float_radix with a radix outside [2, 36]
\* returns no value, consumes no byte, scans and parses nothing and leaves
\* the radix as it was; a next_int_radix with a valid radix that follows
\* parses, in that radix, the token that was there before the rejected call.
RadixCalls == {"next_int_radix", "next_float_radix"}

C10_InvalidRadixDoesNothing ==
    [][ /\ ( last'.op \in RadixCalls /\ (last'.arg < 2 \/ last'.arg > 36) )
           => /\ ~last'.num.some
              /\ ~last'.res.some
              /\ last'.passes = 0
              /\ pos' = pos
              /\ bufEnd' = bufEnd
              /\ radix' = radix
        /\ ( /\ last.op \in RadixCalls
             /\ (last.arg < 2 \/ last.arg > 36)
             /\ last'.op = "next_int_radix"
             /\ last'.arg >= 2
             /\ last'.arg <= 36 )
           => /\ last'.pre = last.pre
              /\ last'.preEnd = last.preEnd
              /\ last'.res = next_call(src, cap, delim, last.pre, last.preEnd).res
              /\ last'.res.some
                    => last'.num = parse_int(strip_commas(last'.res.val), last'.arg)
      ]_vars

C10_Witness ==
    /\ prev.op = "next_int_radix"
    /\ prev.arg = 1
    /\ last.op = "next_int_radix"
    /\ last.arg = 2
    /\ last.res = Some(<<"1", "1", "0", "1", "0">>)
    /\ last.num = SomeNum(26, 1)

\* C11: a call of next_int_radix or next_float_radix with a radix in 2..36
\* leaves the scanner's own radix as it was before the call, whether the call
\* gave a value, failed to parse its token, or found no token.
C11_RadixVariantRestoresRadix ==
    (last.op \in RadixCalls /\ 2 <= last.arg /\ last.arg <= 36)
        => radix = last.preRadix

\* A base-2 call under the radix 10 that read a token and could not parse it.
C11_Witness ==
    /\ last.op = "next_int_radix"
    /\ last.arg = 2
    /\ last.preRadix = 10
    /\ last.res.some
    /\ ~last.num.some
    /\ radix = 10

\* C12: the scanner's radix is always in 2..36 and is 10 after construction;
\* set_radix(r) makes it r when r is in 2..36 and leaves it alone otherwise,
\* and returns the radix in effect after the call.
C12_RadixInRange ==
    /\ 2 <= radix /\ radix <= 36
    /\ last.op = "new" => radix = 10
    /\ last.op = "set_radix" =>
          /\ (2 <= last.arg /\ last.arg <= 36) => radix = last.arg
          /\ (last.arg < 2 \/ last.arg > 36) => radix = last.preRadix
          /\ last.num = SomeNum(radix, 1)

\* set_radix(37) turned down while the radix is 36.
C12_Witness ==
    /\ last.op = "set_radix"
    /\ last.arg = 37
    /\ last.preRadix = 36
    /\ radix = 36
    /\ last.num = SomeNum(36, 1)

EndOps == {"next", "next_line", "next_int", "next_float"}

\* C13: the end of the source is absorbing: a call of next, next_line,
\* next_int or next_float made when the source is exhausted and every buffered
\* byte is consumed returns no token and no value, leaves the stream at the
\* end, and leaves the radix and the delimiter as they were.
C13_EndOfSourceAbsorbing ==
    (last.op \in EndOps /\ last.pre = Len(src)) =>
        /\ ~last.res.some
        /\ ~last.num.some
        /\ pos = Len(src)
        /\ bufEnd = Len(src)
        /\ radix = last.preRadix
        /\ delim = last.preDelim

\* A second call at the end of a source that held something, after a call
\* that had already found nothing, under a delimiter and a radix that were
\* changed on the way.
C13_Witness ==
    /\ last.op = "next"
    /\ last.pre = Len(src)
    /\ prev.op \in EndOps
    /\ ~prev.some
    /\ prev.how = "eof"
    /\ delim = RE_FOO
    /\ radix = 36
    /\ ~last.res.some

\* Where the line that begins at p ends: just after its line feed, or at the
\* end of the source when it has none.
LineEnd(p) ==
    LET nls == {i \in (p + 1)..Len(src) : src[i] = "\n"}
    IN  IF nls = {} THEN Len(src) ELSE CHOOSE i \in nls : \A k \in nls : i <= k

RECURSIVE NoCommas(_)
NoCommas(t) ==
    IF t = <<>> THEN <<>>
    ELSE IF Head(t) = "," THEN NoCommas(Tail(t))
    ELSE <<Head(t)>> \o NoCommas(Tail(t))

\* A numeral of the radix r: an optional sign, then one digit of r or more.
Unsigned(t) == IF t # <<>> /\ Head(t) \in {"+", "-"} THEN Tail(t) ELSE t

Numeral(t, r) ==
    /\ Unsigned(t) # <<>>
    /\ \A i \in 1..Len(Unsigned(t)) : to_digit(Unsigned(t)[i], r) >= 0

\* The digits of a magnitude, as numbers and without leading zeros.
RECURSIVE Significant(_)
Significant(ds) ==
    IF ds = <<>> THEN <<>>
    ELSE IF Head(ds) = 0 THEN Significant(Tail(ds))
    ELSE ds

Magnitude(t, r) ==
    Significant([i \in 1..Len(Unsigned(t)) |-> to_digit(Unsigned(t)[i], r)])

\* The digits of the number n in the radix r.
RECURSIVE DigitsOf(_, _)
DigitsOf(n, r) == IF n < r THEN <<n>> ELSE Append(DigitsOf(n \div r, r), n % r)

\* The digits of the number after the one with the digits ds.
RECURSIVE Successor(_, _)
Successor(ds, r) ==
    IF ds = <<>> THEN <<1>>
    ELSE IF ds[Len(ds)] < r - 1
         THEN Append(SubSeq(ds, 1, Len(ds) - 1), ds[Len(ds)] + 1)
    ELSE Append(Successor(SubSeq(ds, 1, Len(ds) - 1), r), 0)

\* The order of numbers, read off their digits.
AtMost(a, b) ==
    \/ Len(a) < Len(b)
    \/ /\ Len(a) = Len(b)
       /\ \/ a = b
          \/ \E i \in 1..Len(a) : a[i] < b[i] /\ \A j \in 1..(i - 1) : a[j] = b[j]

\* The value of the digits ds, for digits at most I32_MAX.
RECURSIVE Horner(_, _)
Horner(ds, r) ==
    IF ds = <<>> THEN 0 ELSE Horner(SubSeq(ds, 1, Len(ds) - 1), r) * r + ds[Len(ds)]

\* The numeral's value lies in [-2^31, 2^31 - 1], and what it is then.
InI32(t, r) ==
    IF Head(t) = "-"
    THEN AtMost(Magnitude(t, r), Successor(DigitsOf(I32_MAX, r), r))
    ELSE AtMost(Magnitude(t, r), DigitsOf(I32_MAX, r))

ValueI32(t, r) ==
    IF Head(t) # "-" THEN Horner(Magnitude(t, r), r)
    ELSE IF AtMost(Magnitude(t, r), DigitsOf(I32_MAX, r)) THEN 0 - Horner(Magnitude(t, r), r)
    ELSE I32_MIN

IntToken == NoCommas(last.res.val)

\* C15: next_int for the 32-bit signed integer takes every comma out of the
\* token before it parses it; a numeral whose value is in [-2^31, 2^31 - 1]
\* gives that value, and one whose value is 2^31 or more, or less than -2^31,
\* gives no value.
C15_NextIntRange ==
    (last.op = "next_int" /\ last.res.some /\ Numeral(IntToken, last.preRadix)) =>
        IF InI32(IntToken, last.preRadix)
        THEN last.num = SomeNum(ValueI32(IntToken, last.preRadix), 1)
        ELSE last.num = NoNum

\* The largest value, written with commas.
C15_Witness ==
    /\ last.op = "next_int"
    /\ last.res = Some(<<"2", ",", "1", "4", "7", ",", "4", "8", "3", ",", "6", "4", "7">>)
    /\ last.preRadix = 10
    /\ last.num = SomeNum(I32_MAX, 1)

\* C16: the allocation of the elastic buffer is never below its persistent
\* capacity; once every stretched byte is consumed and the unconsumed window
\* fits in the persistent capacity, the allocation is back at the persistent
\* capacity; and a buffer that was never stretched keeps its allocation
\* through every consume.
C16_ContractsToBaseline ==
    /\ queue.capacity >= queue.cap
    /\ (queue.read_pos >= queue.stretchEnd /\ queue.write_pos - queue.read_pos <= queue.cap)
          => queue.capacity = queue.cap
    /\ ~queue.stretched => queue.capacity = queue.cap

\* A consume that gave back the room of a stretch while bytes were still
\* unconsumed.
C16_Witness ==
    /\ queue.op = "consume"
    /\ queue.stretched
    /\ queue.capacity = queue.cap
    /\ queue.write_pos > queue.read_pos

\* Where consume_leading_delims leaves the stream from the current state, and
\* where a second run right after it does.
LeadingOnce == consume_leading_delims(src, cap, delim, pos, bufEnd)

LeadingTwice == consume_leading_delims(src, cap, delim, LeadingOnce.pos, LeadingOnce.bufEnd)

\* C17: the skip of leading delimiters is idempotent: from any state of the
\* stream, consume_leading_delims run twice leaves the stream where one run
\* leaves it.
C17_LeadingSkipIdempotent == LeadingTwice = LeadingOnce

\* A skip that consumes delimiters from more than one window and stops before
\* the end of the source.
C17_Witness ==
    /\ LeadingOnce.pos > pos + cap
    /\ LeadingOnce.pos < Len(src)
    /\ last.op = "next"

\* C18: when a read of the source fails during next, the call ends as at the
\* end of the source: no read is attempted after the failed one, no byte is
\* consumed after it, and the call returns the text accumulated up to the
\* failure when there is some and no token otherwise.
C18_ReadFailureEndsCall ==
    (last.op = "next" /\ fault.failed) =>
        /\ fault.retries = 0
        /\ pos = fault.at
        /\ last.res = token_result(fault.acc)

\* Text that is not delimiter text is left at or after p: a byte that lies in
\* no match of the delimiter d within the rest of the source.
TokenTextRemains(d, p) ==
    \E i \in (p + 1)..Len(src) :
        ~\E a \in p..(i - 1) : \E b \in i..Len(src) : InLang(d, Slice(src, a, b))

\* C19: on valid text and under any delimiter, one that can match the empty
\* string included, next returns a token whenever text that is not delimiter
\* text is still unconsumed; it returns no token only at the end of the stream.
C19_TokenWhileTextRemains ==
    (last.op = "next" /\ from_utf8_ok(src) /\ TokenTextRemains(last.preDelim, last.pre))
        => last.res.some

DelimCalls == {"set_delim", "set_delim_str"}

\* C20: set_delim and set_delim_str change the delimiter and nothing else: the
\* stream position, the buffered unconsumed bytes and the radix are as before
\* the call, the delimiter is the one passed (escaped, for set_delim_str), and
\* the scans that follow are the scans of the code under that delimiter.
C20_SetDelimChangesOnlyDelim ==
    [][ /\ last'.op \in DelimCalls =>
              /\ pos' = pos
              /\ bufEnd' = bufEnd
              /\ src' = src
              /\ cap' = cap
              /\ radix' = radix
              /\ last'.op = "set_delim" => delim' \in ScanRegexes
              /\ last'.op = "set_delim_str" => delim' = Escaped(TwoSpaces)
        /\ (last.op \in DelimCalls /\ last'.op = "next") =>
              /\ last'.preDelim = delim
              /\ last'.res = next_call(src, cap, delim, pos, bufEnd).res
              /\ pos' = next_call(src, cap, delim, pos, bufEnd).pos
      ]_vars

\* A literal delimiter installed in the middle of the buffered bytes, after a
\* token was read under another delimiter.
C20_Witness ==
    /\ prev.op = "next"
    /\ prev.some
    /\ last.op = "set_delim_str"
    /\ last.preDelim = RE_APLUSB
    /\ delim = Escaped(TwoSpaces)
    /\ pos > 0
    /\ pos < bufEnd
    /\ pos = last.pre
    /\ bufEnd = last.preEnd

\* C21: every call of next on a finite source returns, under every delimiter
\* and capacity: an iteration of the loop of consume_leading_delims or of the
\* loop of next that does not leave its loop consumes at least one byte, and
\* a call that has begun comes to its end.
C21_NextTerminates ==
    /\ [][ (pc.at \in {"leading", "token"} /\ pc'.at = pc.at) => pos' > pos ]_vars
    /\ (pc.at # "idle") ~> (pc.at = "idle")

\* A call that is over after both loops went round: the skip consumed more
\* than one window of delimiters and the token is longer than a window.
C21_Witness ==
    /\ pc.at = "idle"
    /\ pc.start > pc.pre + cap
    /\ pos > pc.start + cap
    /\ pc.ret.some

\* The text is a run of delimiters: matches of d, one after the other.
RECURSIVE IsDelimRun(_, _)
IsDelimRun(d, s) ==
    \/ s = <<>>
    \/ \E k \in 1..Len(s) :
          InLang(d, Slice(s, 0, k)) /\ IsDelimRun(d, Slice(s, k, Len(s)))

TokenLength == IF last.res.some THEN Len(last.res.val) ELSE 0

\* C22: on a source that is valid text, a call of next advances the stream by
\* the leading delimiter bytes it skipped plus the length of the token it
\* returns, and the token is the bytes consumed after the skipped delimiters,
\* in the order of the source: no consumed byte that is not a delimiter byte
\* is missing from the token.
C22_ByteConservation ==
    (last.op = "next" /\ from_utf8_ok(src)) =>
        /\ last.pre <= last.tokStart
        /\ last.tokStart <= pos
        /\ IsDelimRun(last.preDelim, Slice(src, last.pre, last.tokStart))
        /\ pos - last.pre = (last.tokStart - last.pre) + TokenLength
        /\ last.res.some => last.res.val = Slice(src, last.tokStart, pos)

\* C23: next never returns a token that is present and empty: a token it
\* returns has at least one byte, and a call that accumulated no text, having
\* consumed nothing after the leading delimiters, returns no token.
C23_NoEmptyToken ==
    last.op = "next" =>
        /\ last.res.some => Len(last.res.val) >= 1
        /\ pos = last.tokStart => ~last.res.some

\* A call that stopped at an empty delimiter match before the end of the
\* source, with nothing accumulated, and returned no token.
C23_Witness ==
    /\ last.op = "next"
    /\ last.preDelim = RE_WSSTAR
    /\ last.found.some
    /\ last.found.end = last.found.start
    /\ pos = last.tokStart
    /\ pos < Len(src)
    /\ ~last.res.some

====
